---- MODULE Spec2Model ----
(***************************************************************************)
(* Model of ollama-chat/server.py: the CORS proxy in front of one Ollama   *)
(* backend.  main() resolves the backend URL and queries its status, then  *)
(* a socketserver.TCPServer serves one connection at a time; every         *)
(* connection builds a CORSHTTPRequestHandler, whose __init__ resolves the *)
(* URL and queries the status again before the request is parsed and       *)
(* dispatched to do_OPTIONS / do_GET / do_POST / proxy_to_ollama.          *)
(***************************************************************************)
EXTENDS Integers, Sequences, FiniteSets, TLC

(***************************************************************************)
(* Bounds and program constants                                            *)
(***************************************************************************)
\* number of inbound connections a behaviour contains
MaxRequests == 2

\* server.py:118, 119
max_retries == 3
base_retry_delay == 1

\* server.py:72, the slice models[:5]
models_shown == 5

\* server.py:26, the two values of the environment variable OLLAMA_URL
NoOverride == ""
OverrideURL == "http://custom:11434"
Overrides == {NoOverride, OverrideURL}

\* server.py:32-35 and 43
docker_candidates == <<"http://rag-ollama:11434", "http://ollama:11434">>
localhost_url == "http://localhost:11434"
Candidates == docker_candidates \o <<localhost_url>>

(***************************************************************************)
(* What one GET <url>/api/tags of test_connection can meet                 *)
(***************************************************************************)
ProbeOutcomes == {"status_200", "status_204", "http_404", "refused",
                  "timeout", "bad_status_line"}

\* server.py:52-59.  urlopen raises HTTPError (a URLError) for a non-2xx
\* status, URLError for a refused connection, socket.timeout for a timeout:
\* all three are caught.  A reply that is not HTTP raises
\* http.client.BadStatusLine, which is none of URLError, OSError,
\* socket.timeout and leaves test_connection as an exception.
test_connection(outcome) ==
    CASE outcome = "status_200" -> "True"
      [] outcome = "status_204" -> "False"
      [] outcome \in {"http_404", "refused", "timeout"} -> "False"
      [] OTHER -> "raise"

(***************************************************************************)
(* What the GET <ollama_url>/api/tags of test_ollama_connection can meet:  *)
(* a failure of the call, a body that is not JSON, or an inventory         *)
(***************************************************************************)
Inventories == { <<>>, <<"m2", "m1">>,
                 <<"m6", "m5", "m4", "m3", "m2", "m1">> }
StatusOutcomes ==
    {[kind |-> "refused", models |-> <<>>],
     [kind |-> "bad_json", models |-> <<>>]}
    \cup {[kind |-> "ok", models |-> inv] : inv \in Inventories}

Min(a, b) == IF a < b THEN a ELSE b

\* server.py:61-81
test_ollama_connection_mut_count_shown(url, outcome) ==
    IF outcome.kind = "ok"
    THEN [connected |-> TRUE, url |-> url, error |-> "",
          models_count |-> Min(Len(outcome.models), models_shown),
          models |-> SubSeq(outcome.models, 1,
                            Min(Len(outcome.models), models_shown))]
    ELSE [connected |-> FALSE, url |-> url, error |-> outcome.kind,
          models_count |-> 0, models |-> <<>>]

test_ollama_connection(url, outcome) ==
    IF outcome.kind = "ok"
    THEN [connected |-> TRUE, url |-> url, error |-> "",
          models_count |-> Len(outcome.models),
          models |-> SubSeq(outcome.models, 1,
                            Min(Len(outcome.models), models_shown))]
    ELSE [connected |-> FALSE, url |-> url, error |-> outcome.kind,
          models_count |-> 0, models |-> <<>>]

NoStatus == [connected |-> FALSE, url |-> "", error |-> "unset",
             models_count |-> 0, models |-> <<>>]

(***************************************************************************)
(* State                                                                   *)
(***************************************************************************)
VARIABLES
    override,          \* os.getenv('OLLAMA_URL', '')
    phase,             \* position of main()
    startup_url,       \* temp_handler.ollama_url of main()
    detect,            \* the running / last call of detect_ollama_url
    resolveCount,      \* calls of detect_ollama_url so far
    arrived,           \* connections opened by clients so far
    backlog,           \* connections waiting in the listen queue
    hpc,               \* position of the handler of the accepted connection
    ollama_url,        \* self.ollama_url of that handler
    connection_status, \* self.connection_status of that handler
    request,           \* the parsed request: command, path, Content-Length
    rfile,             \* bytes of the inbound stream not yet read
    clientEOF,         \* the client has shut down its sending side
    loop,              \* locals of proxy_to_ollama's retry loop
    outcomes,          \* class of the outcome of each outbound attempt
    attempts,          \* the outbound requests attempted, in order
    slept,             \* the delays slept, in order
    reads,             \* calls of self.rfile.read so far
    resp,              \* the response written to the caller
    calls,             \* outbound calls made for the accepted connection
    status_reply       \* what the backend gave to its last status query

svars == <<override, phase, startup_url, detect, resolveCount>>
cvars == <<arrived, backlog>>
hvars == <<ollama_url, connection_status>>
qvars == <<calls, status_reply>>
rvars == <<request, rfile, clientEOF, loop, outcomes, attempts, slept,
           reads, resp, calls, status_reply>>
vars == <<override, phase, startup_url, detect, resolveCount, arrived,
          backlog, hpc, ollama_url, connection_status, request, rfile,
          clientEOF, loop, outcomes, attempts, slept, reads, resp, calls,
          status_reply>>

NoRequest == [command |-> "", path |-> "", content_length |-> "absent"]
NoLast == [class |-> "none", code |-> 0, data |-> ""]
NoBody == [present |-> FALSE, bytes |-> <<>>]
InitLoop == [attempt |-> 0, retry_delay |-> base_retry_delay,
             request_body |-> NoBody, last |-> NoLast]
NoResp == [status |-> 0, headers |-> <<>>, body |-> [kind |-> "none"]]

NoReply == [kind |-> "none", models |-> <<>>]
\* an outbound call: GET <base>/api/tags of a probe or a status query, or
\* the forwarded request
tags_call(base) == [method |-> "GET", base |-> base, path |-> "/api/tags"]

IdleDetect == [state |-> "idle", caller |-> "", probes |-> <<>>,
               answers |-> <<>>, result |-> ""]

Init ==
    /\ override \in Overrides
    /\ phase = "main"
    /\ startup_url = ""
    /\ detect = IdleDetect
    /\ resolveCount = 0
    /\ arrived = 0
    /\ backlog = 0
    /\ hpc = "idle"
    /\ ollama_url = ""
    /\ connection_status = NoStatus
    /\ request = NoRequest
    /\ rfile = <<>>
    /\ clientEOF = FALSE
    /\ loop = InitLoop
    /\ outcomes = <<>>
    /\ attempts = <<>>
    /\ slept = <<>>
    /\ reads = 0
    /\ resp = NoResp
    /\ calls = <<>>
    /\ status_reply = NoReply

(***************************************************************************)
(* detect_ollama_url, server.py:23-50                                      *)
(***************************************************************************)
\* lines 26-29: the state of the call after the environment was read
detect_enter_mut_ignore_env(caller, env) ==
    [state |-> "probing", caller |-> caller, probes |-> <<>>,
     answers |-> <<>>, result |-> ""]

detect_enter(caller, env) ==
    IF env # ""
    THEN [state |-> "returned", caller |-> caller, probes |-> <<>>,
          answers |-> <<>>, result |-> env]
    ELSE [state |-> "probing", caller |-> caller, probes |-> <<>>,
          answers |-> <<>>, result |-> ""]

\* lines 37-50: the call d probes its next candidate and meets outcome
detect_probe_mut_no_shortcircuit(d, outcome) ==
    LET i == Len(d.probes) + 1
        url == Candidates[i]
        d1 == [d EXCEPT !.probes = Append(@, url),
                        !.answers = Append(@, outcome)]
    IN  CASE test_connection(outcome) = "raise" ->
               [d1 EXCEPT !.state = "raised"]
          [] i = Len(Candidates) ->
               [d1 EXCEPT !.state = "returned", !.result = localhost_url]
          [] OTHER -> d1

detect_probe(d, outcome) ==
    LET i == Len(d.probes) + 1
        url == Candidates[i]
        d1 == [d EXCEPT !.probes = Append(@, url),
                        !.answers = Append(@, outcome)]
    IN  CASE test_connection(outcome) = "True" ->
               [d1 EXCEPT !.state = "returned", !.result = url]
          [] test_connection(outcome) = "raise" ->
               [d1 EXCEPT !.state = "raised"]
          [] i = Len(Candidates) ->
               [d1 EXCEPT !.state = "returned", !.result = localhost_url]
          [] OTHER -> d1

\* one probe of the running call, whoever called it
DetectProbe ==
    /\ detect.state = "probing"
    /\ \E outcome \in ProbeOutcomes : detect' = detect_probe(detect, outcome)
    /\ calls' = IF detect.caller = "handler"
                THEN Append(calls, tags_call(Candidates[Len(detect.probes) + 1]))
                ELSE calls
    /\ UNCHANGED <<override, phase, startup_url, resolveCount, cvars, hpc,
                   hvars, request, rfile, clientEOF, loop, outcomes, attempts,
                   slept, reads, resp, status_reply>>

(***************************************************************************)
(* main(), server.py:213-270                                               *)
(***************************************************************************)
\* line 233, the call
MainDetectCall ==
    /\ phase = "main"
    /\ detect' = detect_enter("main", override)
    /\ resolveCount' = resolveCount + 1
    /\ phase' = "main_detect"
    /\ UNCHANGED <<override, startup_url, cvars, hpc, hvars, rvars>>

\* line 233, the assignment of the returned URL
MainDetectReturn ==
    /\ phase = "main_detect"
    /\ detect.state = "returned"
    /\ startup_url' = detect.result
    /\ detect' = IdleDetect
    /\ phase' = "main_status"
    /\ UNCHANGED <<override, resolveCount, cvars, hpc, hvars, rvars>>

\* line 233: the exception of a probe is not caught anywhere in main()
MainDetectRaise ==
    /\ phase = "main_detect"
    /\ detect.state = "raised"
    /\ detect' = IdleDetect
    /\ phase' = "crashed"
    /\ UNCHANGED <<override, startup_url, resolveCount, cvars, hpc, hvars,
                   rvars>>

\* lines 234-245: the status query for the banner, whose result is a local
\* that only the banner reads; then the listening socket is created
MainStatus ==
    /\ phase = "main_status"
    /\ phase' = "serving"
    /\ UNCHANGED <<override, startup_url, detect, resolveCount, cvars, hpc,
                   hvars, rvars>>

(***************************************************************************)
(* Clients and the accept loop of socketserver.TCPServer (line 245, 268):  *)
(* serve_forever handles one connection to its end before the next accept  *)
(***************************************************************************)
ClientConnect ==
    /\ phase = "serving"
    /\ arrived < MaxRequests
    /\ arrived' = arrived + 1
    /\ backlog' = backlog + 1
    /\ UNCHANGED <<svars, hpc, hvars, rvars>>

Accept ==
    /\ phase = "serving"
    /\ hpc = "idle"
    /\ backlog > 0
    /\ backlog' = backlog - 1
    /\ hpc' = "init"
    /\ UNCHANGED <<svars, arrived, hvars, rvars>>

(***************************************************************************)
(* CORSHTTPRequestHandler.__init__, server.py:18-21                        *)
(***************************************************************************)
\* line 19, the call
HandlerDetectCall ==
    /\ hpc = "init"
    /\ detect' = detect_enter("handler", override)
    /\ resolveCount' = resolveCount + 1
    /\ hpc' = "init_detect"
    /\ UNCHANGED <<override, phase, startup_url, cvars, hvars, rvars>>

\* line 19, the assignment
HandlerDetectReturn ==
    /\ hpc = "init_detect"
    /\ detect.state = "returned"
    /\ ollama_url' = detect.result
    /\ detect' = IdleDetect
    /\ hpc' = "init_status"
    /\ UNCHANGED <<override, phase, startup_url, resolveCount, cvars,
                   connection_status, rvars>>

\* line 19: the exception leaves __init__; socketserver reports it and
\* closes the connection, nothing was written
HandlerDetectRaise ==
    /\ hpc = "init_detect"
    /\ detect.state = "raised"
    /\ detect' = IdleDetect
    /\ hpc' = "done"
    /\ UNCHANGED <<override, phase, startup_url, resolveCount, cvars, hvars,
                   rvars>>

\* line 20
HandlerInitStatus ==
    /\ hpc = "init_status"
    /\ \E outcome \in StatusOutcomes :
          /\ connection_status' = test_ollama_connection(ollama_url, outcome)
          /\ status_reply' = outcome
    /\ calls' = Append(calls, tags_call(ollama_url))
    /\ hpc' = "dispatch"
    /\ UNCHANGED <<svars, cvars, ollama_url, request, rfile, clientEOF, loop,
                   outcomes, attempts, slept, reads, resp>>

(***************************************************************************)
(* Inbound requests                                                        *)
(***************************************************************************)
Commands == {"GET", "POST", "OPTIONS"}
Paths == {"/api/status", "/api/tags", "/api/chat", "/index.html"}
\* the Content-Length header as the client sent it
ContentLengths == {"absent", "0", "2", "bad"}
\* what follows the headers on the connection: the declared body, and for
\* some clients more bytes after it
Streams(cl) == IF cl = "2" THEN {<<1, 2>>, <<1, 2, 3, 4>>} ELSE {<<>>}

\* self.path.startswith('/api/'), lines 95 and 102
startswith_api(path) == path \in {"/api/status", "/api/tags", "/api/chat"}
\* self.path.endswith('/chat'), lines 138 and 160
endswith_chat(path) == path = "/api/chat"

\* int(self.headers.get('Content-Length', 0)), line 127; -1 stands for the
\* ValueError of a value that is not a number
content_length_int(cl) ==
    CASE cl = "absent" -> 0
      [] cl = "0" -> 0
      [] cl = "2" -> 2
      [] OTHER -> -1
content_length_raises(cl) == cl = "bad"

(***************************************************************************)
(* Responses                                                               *)
(***************************************************************************)
\* end_headers, lines 83-87: the CORS headers follow what was sent before
end_headers_mut_no_cors(headers) == headers

end_headers_mut_cors_first(headers) ==
    <<"Access-Control-Allow-Origin",
      "Access-Control-Allow-Methods",
      "Access-Control-Allow-Headers">> \o headers

end_headers(headers) ==
    headers \o <<"Access-Control-Allow-Origin",
                 "Access-Control-Allow-Methods",
                 "Access-Control-Allow-Headers">>

\* self.send_response(code), lines 90, 111, 146, 155, 179, 193: the status
\* line, followed by the Server and Date headers of the base class
send_response_headers == <<"Server", "Date">>

\* send_response(code); send_header('Content-Type', ...); end_headers();
\* wfile.write(body)
json_response(code, body) ==
    [status |-> code,
     headers |-> end_headers(send_response_headers \o <<"Content-Type">>),
     body |-> body]

\* lines 111-115: the answer of the status sub-route
status_response_mut_503(url, outcome) ==
    json_response(IF outcome.kind = "ok" THEN 200 ELSE 503,
                  [kind |-> "status",
                   status |-> test_ollama_connection(url, outcome)])

status_response(url, outcome) ==
    json_response(200, [kind |-> "status",
                        status |-> test_ollama_connection(url, outcome)])

\* lines 163-167, 183-187, 196-200: the JSON object of an error answer
Envelope_mut_empty_suggestion(error, message, suggestion) ==
    [kind |-> "envelope", error |-> error, message |-> message,
     suggestion |-> ""]

Envelope(error, message, suggestion) ==
    [kind |-> "envelope", error |-> error, message |-> message,
     suggestion |-> suggestion]

\* _get_error_suggestion, lines 204-211
get_error_suggestion_mut_no_503(status_code) ==
    CASE status_code = 404 -> "Try selecting a different model or pull the model"
      [] status_code = 500 -> "The model might be loading"
      [] OTHER -> "Please check the Ollama service status and try again"

get_error_suggestion(status_code) ==
    CASE status_code = 404 -> "Try selecting a different model or pull the model"
      [] status_code = 500 -> "The model might be loading"
      [] status_code = 503 -> "Ollama service might be starting up"
      [] OTHER -> "Please check the Ollama service status and try again"

\* lines 159-161
error_msg(code, path) ==
    IF code = 404 /\ endswith_chat(path)
    THEN [text |-> "Model not found. Please ensure the selected model is available in Ollama.",
          n |-> 0]
    ELSE IF code = 404 THEN [text |-> "Model not found", n |-> 0]
         ELSE [text |-> "Ollama HTTP", n |-> code]

\* lines 155-168
http_error_response(code, path) ==
    json_response(code,
        Envelope(error_msg(code, path),
                 [text |-> "HTTP Error", n |-> code, cause |-> ""],
                 get_error_suggestion(code)))

\* lines 179-188
unavailable_response(cause) ==
    json_response(503,
        Envelope([text |-> "Service Unavailable", n |-> 0],
                 [text |-> "Cannot connect to Ollama after n attempts",
                  n |-> max_retries, cause |-> cause],
                 "Please ensure Ollama is running and accessible"))

\* lines 193-201
internal_error_response(cause) ==
    json_response(500,
        Envelope([text |-> "Internal Server Error", n |-> 0],
                 [text |-> "", n |-> 0, cause |-> cause],
                 "Please check server logs for more details."))

(***************************************************************************)
(* handle_one_request: parse, then do_OPTIONS / do_GET / do_POST           *)
(***************************************************************************)
\* lines 89-105: where the request goes
route_mut_options_proxied(command, path) ==
    CASE startswith_api(path) -> "proxy"
      [] command = "OPTIONS" -> "options"
      [] command = "GET" -> "static"
      [] OTHER -> "no_do_POST"

route(command, path) ==
    CASE command = "OPTIONS" -> "options"
      [] command = "GET" /\ startswith_api(path) -> "proxy"
      [] command = "GET" -> "static"
      [] command = "POST" /\ startswith_api(path) -> "proxy"
      [] OTHER -> "no_do_POST"

Dispatch ==
    /\ hpc = "dispatch"
    /\ \E command \in Commands, path \in Paths, cl \in ContentLengths :
          /\ request' = [command |-> command, path |-> path,
                         content_length |-> cl]
          /\ \E stream \in Streams(cl) : rfile' = stream
          /\ hpc' = route(command, path)
    /\ UNCHANGED <<svars, cvars, hvars, qvars, clientEOF, loop, outcomes,
                   attempts, slept, reads, resp>>

\* do_OPTIONS, lines 89-91
DoOptions ==
    /\ hpc = "options"
    /\ resp' = [status |-> 200, headers |-> end_headers(send_response_headers),
                body |-> [kind |-> "empty"]]
    /\ hpc' = "done"
    /\ UNCHANGED <<svars, cvars, hvars, qvars, request, rfile, clientEOF,
                   loop, outcomes, attempts, slept, reads>>

\* line 98: SimpleHTTPRequestHandler.do_GET answers with the file or with
\* 404, through the end_headers of lines 83-87
DoStaticGet ==
    /\ hpc = "static"
    /\ \E code \in {200, 404} :
          resp' = [status |-> code,
                   headers |-> end_headers(send_response_headers
                                           \o <<"Content-Type">>),
                   body |-> [kind |-> "static"]]
    /\ hpc' = "done"
    /\ UNCHANGED <<svars, cvars, hvars, qvars, request, rfile, clientEOF,
                   loop, outcomes, attempts, slept, reads>>

\* line 105: SimpleHTTPRequestHandler has no do_POST; the AttributeError
\* leaves the handler, nothing is written
DoStaticPost ==
    /\ hpc = "no_do_POST"
    /\ hpc' = "done"
    /\ UNCHANGED <<svars, cvars, hvars, rvars>>

(***************************************************************************)
(* proxy_to_ollama, server.py:107-202                                      *)
(***************************************************************************)
\* lines 110-116: the status sub-route
ProxyStatus ==
    /\ hpc = "proxy"
    /\ request.path = "/api/status"
    /\ \E outcome \in StatusOutcomes :
          /\ resp' = status_response(ollama_url, outcome)
          /\ status_reply' = outcome
    /\ calls' = Append(calls, tags_call(ollama_url))
    /\ hpc' = "done"
    /\ UNCHANGED <<svars, cvars, hvars, request, rfile, clientEOF, loop,
                   outcomes, attempts, slept, reads>>

\* lines 118-119: the locals of the loop
ProxyEnterLoop ==
    /\ hpc = "proxy"
    /\ request.path # "/api/status"
    /\ loop' = InitLoop
    /\ hpc' = "loop"
    /\ UNCHANGED <<svars, cvars, hvars, qvars, request, rfile, clientEOF,
                   outcomes, attempts, slept, reads, resp>>

\* self.rfile.read(n) waits until n bytes have come or the client has shut
\* down its side
read_blocks(stream, eof, n) == Len(stream) < n /\ ~eof
read_bytes(stream, n) == SubSeq(stream, 1, Min(n, Len(stream)))
read_rest(stream, n) == SubSeq(stream, Min(n, Len(stream)) + 1, Len(stream))

\* line 127 raises: lines 191-202
LoopBadLength ==
    /\ hpc = "loop"
    /\ content_length_raises(request.content_length)
    /\ resp' = internal_error_response("ValueError")
    /\ hpc' = "done"
    /\ UNCHANGED <<svars, cvars, hvars, qvars, request, rfile, clientEOF,
                   loop, outcomes, attempts, slept, reads>>

\* lines 124-131 of one iteration: the body is read from the connection
LoopRead ==
    /\ hpc = "loop"
    /\ ~content_length_raises(request.content_length)
    /\ LET n == content_length_int(request.content_length)
       IN  IF n > 0
           THEN /\ ~read_blocks(rfile, clientEOF, n)
                /\ loop' = [loop EXCEPT !.request_body =
                               [present |-> TRUE,
                                bytes |-> read_bytes(rfile, n)]]
                /\ rfile' = read_rest(rfile, n)
                /\ reads' = reads + 1
           ELSE /\ loop' = [loop EXCEPT !.request_body = NoBody]
                /\ UNCHANGED <<rfile, reads>>
    /\ hpc' = "urlopen"
    /\ UNCHANGED <<svars, cvars, hvars, qvars, request, clientEOF, outcomes,
                   attempts, slept, resp>>

\* the client shuts down its sending side; the handler can see it only in
\* a read that waits for bytes
ClientClose ==
    /\ hpc = "loop"
    /\ ~content_length_raises(request.content_length)
    /\ read_blocks(rfile, clientEOF,
                   content_length_int(request.content_length))
    /\ clientEOF' = TRUE
    /\ UNCHANGED <<svars, cvars, qvars, hpc, hvars, request, rfile, loop, outcomes,
                   attempts, slept, reads, resp>>

\* what urlopen(req, timeout) and response.read() can meet
UpstreamOutcomes ==
    {[class |-> "ok", code |-> 200, data |-> "b1"],
     [class |-> "ok", code |-> 200, data |-> "b2"],
     [class |-> "ok", code |-> 201, data |-> "b1"]}
    \cup {[class |-> "http_error", code |-> c, data |-> "e1"] :
             c \in {404, 418, 500, 503}}
    \cup {[class |-> "connfail", code |-> 0, data |-> d] :
             d \in {"refused", "timeout"}}
    \cup {[class |-> "exception", code |-> 0, data |-> "bad_status_line"]}

\* urllib.request.Request.get_method: POST when data is not None
get_method(body) == IF body.present THEN "POST" ELSE "GET"

\* lines 124-138: the outbound request of this iteration
outbound_request(url, req, body) ==
    [method |-> get_method(body), base |-> url, path |-> req.path,
     data |-> body.bytes,
     content_type |-> req.command = "POST",
     timeout |-> IF endswith_chat(req.path) THEN 60 ELSE 10]

\* lines 141-202: what the iteration does with the outcome of its attempt.
\* The result names the next position, the loop locals and the response.
after_attempt_mut_error_answered_at_once(l, req, outcome) ==
    LET l1 == [l EXCEPT !.last = outcome]
    IN  CASE outcome.class = "ok" ->
               [hpc |-> "done", loop |-> l1,
                resp |-> json_response(200, [kind |-> "upstream",
                                             data |-> outcome.data])]
          [] outcome.class = "http_error" ->
               [hpc |-> "done", loop |-> l1,
                resp |-> http_error_response(outcome.code, req.path)]
          [] outcome.class = "connfail" ->
               IF l.attempt < max_retries - 1
               THEN [hpc |-> "sleep", loop |-> l1, resp |-> NoResp]
               ELSE [hpc |-> "done", loop |-> l1,
                     resp |-> unavailable_response(outcome.data)]
          [] OTHER ->
               [hpc |-> "done", loop |-> l1,
                resp |-> internal_error_response(outcome.data)]

after_attempt_mut_retry_exception(l, req, outcome) ==
    LET l1 == [l EXCEPT !.last = outcome]
    IN  CASE outcome.class = "ok" ->
               [hpc |-> "done", loop |-> l1,
                resp |-> json_response(200, [kind |-> "upstream",
                                             data |-> outcome.data])]
          [] outcome.class = "http_error" ->
               IF l.attempt = max_retries - 1
               THEN [hpc |-> "done", loop |-> l1,
                     resp |-> http_error_response(outcome.code, req.path)]
               ELSE [hpc |-> "loop",
                     loop |-> [l1 EXCEPT !.attempt = @ + 1],
                     resp |-> NoResp]
          [] OTHER ->
               IF l.attempt < max_retries - 1
               THEN [hpc |-> "sleep", loop |-> l1, resp |-> NoResp]
               ELSE [hpc |-> "done", loop |-> l1,
                     resp |-> unavailable_response(outcome.data)]

after_attempt(l, req, outcome) ==
    LET l1 == [l EXCEPT !.last = outcome]
    IN  CASE outcome.class = "ok" ->
               [hpc |-> "done", loop |-> l1,
                resp |-> json_response(200, [kind |-> "upstream",
                                             data |-> outcome.data])]
          [] outcome.class = "http_error" ->
               IF l.attempt = max_retries - 1
               THEN [hpc |-> "done", loop |-> l1,
                     resp |-> http_error_response(outcome.code, req.path)]
               ELSE [hpc |-> "loop",
                     loop |-> [l1 EXCEPT !.attempt = @ + 1],
                     resp |-> NoResp]
          [] outcome.class = "connfail" ->
               IF l.attempt < max_retries - 1
               THEN [hpc |-> "sleep", loop |-> l1, resp |-> NoResp]
               ELSE [hpc |-> "done", loop |-> l1,
                     resp |-> unavailable_response(outcome.data)]
          [] OTHER ->
               [hpc |-> "done", loop |-> l1,
                resp |-> internal_error_response(outcome.data)]

\* lines 131-202 of one iteration: the outbound attempt and its handling
Urlopen ==
    /\ hpc = "urlopen"
    /\ \E outcome \in UpstreamOutcomes :
          LET next == after_attempt(loop, request, outcome)
          IN  /\ attempts' = Append(attempts,
                     outbound_request(ollama_url, request, loop.request_body))
              /\ outcomes' = Append(outcomes, outcome.class)
              /\ calls' = Append(calls,
                     [method |-> get_method(loop.request_body),
                      base |-> ollama_url, path |-> request.path])
              /\ hpc' = next.hpc
              /\ loop' = next.loop
              /\ resp' = next.resp
    /\ UNCHANGED <<svars, cvars, hvars, request, rfile, clientEOF, slept,
                   reads, status_reply>>

\* lines 173-176: the backoff
Sleep ==
    /\ hpc = "sleep"
    /\ slept' = Append(slept, loop.retry_delay)
    /\ loop' = [loop EXCEPT !.retry_delay = 2 * @, !.attempt = @ + 1]
    /\ hpc' = "loop"
    /\ UNCHANGED <<svars, cvars, hvars, qvars, request, rfile, clientEOF,
                   outcomes, attempts, reads, resp>>

\* the handler object is dropped and serve_forever accepts again
Finish ==
    /\ hpc = "done"
    /\ hpc' = "idle"
    /\ ollama_url' = ""
    /\ connection_status' = NoStatus
    /\ request' = NoRequest
    /\ rfile' = <<>>
    /\ clientEOF' = FALSE
    /\ loop' = InitLoop
    /\ outcomes' = <<>>
    /\ attempts' = <<>>
    /\ slept' = <<>>
    /\ reads' = 0
    /\ resp' = NoResp
    /\ calls' = <<>>
    /\ status_reply' = NoReply
    /\ UNCHANGED <<svars, cvars>>

Next ==
    \/ MainDetectCall
    \/ DetectProbe
    \/ MainDetectReturn
    \/ MainDetectRaise
    \/ MainStatus
    \/ ClientConnect
    \/ Accept
    \/ HandlerDetectCall
    \/ HandlerDetectReturn
    \/ HandlerDetectRaise
    \/ HandlerInitStatus
    \/ Dispatch
    \/ DoOptions
    \/ DoStaticGet
    \/ DoStaticPost
    \/ ProxyStatus
    \/ ProxyEnterLoop
    \/ LoopBadLength
    \/ LoopRead
    \/ ClientClose
    \/ Urlopen
    \/ Sleep
    \/ Finish

Spec == Init /\ [][Next]_vars

\* The steps of the process itself.  The interpreter runs its single thread
\* whenever a step of it is possible; clients are under no obligation.
Program ==
    \/ MainDetectCall \/ DetectProbe \/ MainDetectReturn \/ MainDetectRaise
    \/ MainStatus \/ Accept \/ HandlerDetectCall \/ HandlerDetectReturn
    \/ HandlerDetectRaise \/ HandlerInitStatus \/ Dispatch \/ DoOptions
    \/ DoStaticGet \/ DoStaticPost \/ ProxyStatus \/ ProxyEnterLoop
    \/ LoopBadLength \/ LoopRead \/ Urlopen \/ Sleep \/ Finish

FairSpec == Spec /\ WF_vars(Program)

(***************************************************************************)
(* Properties                                                              *)
(***************************************************************************)
RECURSIVE Sum(_)
Sum(seq) == IF seq = <<>> THEN 0 ELSE seq[1] + Sum(Tail(seq))

InLoop == hpc \in {"loop", "urlopen", "sleep"}
OnlyConnFail ==
    /\ outcomes # <<>>
    /\ \A i \in 1..Len(outcomes) : outcomes[i] = "connfail"
GotHttpResponse == loop.last.class \in {"ok", "http_error"}
UpstreamBody == [kind |-> "upstream", data |-> loop.last.data]

\* C1: an upstream HTTP error is the last outbound attempt of its request,
\* whatever its index, and is answered at once with the upstream status
\* code and an error envelope.
C1_HttpErrorNotRetried ==
    \A i \in 1..Len(outcomes) :
       outcomes[i] = "http_error" =>
          /\ i = Len(outcomes)
          /\ resp.status = loop.last.code
          /\ resp.body.kind = "envelope"

\* C2: a request whose outbound attempts all fail at connection level gets
\* max_retries attempts and then the 503 envelope that names the attempt
\* count; no attempt follows the response.
Answered503 ==
    /\ hpc = "done"
    /\ Len(attempts) = max_retries
    /\ resp.status = 503
    /\ resp.body.kind = "envelope"
    /\ resp.body.message.n = max_retries
C2_AllRefusedThen503 ==
    /\ [](hpc = "done" /\ OnlyConnFail => Answered503)
    /\ [][hpc = "done" => attempts' = attempts \/ attempts' = <<>>]_vars
    /\ (InLoop /\ OnlyConnFail) ~> (Answered503 \/ ~OnlyConnFail)

\* C3: two refused attempts and an answer to the third: the caller gets
\* the status and the body of that answer, after delays of 1 and 2 seconds.
C3_ThirdAnswerReturned ==
    (outcomes = <<"connfail", "connfail", "ok">>) =>
        /\ resp.status = loop.last.code
        /\ resp.body = UpstreamBody
        /\ slept = <<base_retry_delay, 2 * base_retry_delay>>
        /\ Sum(slept) >= 3 * base_retry_delay

\* C4: the status code and the body sent to the caller are those of the
\* upstream's HTTP response, for every status code.
C4_VerbatimForward ==
    (outcomes # <<>> /\ GotHttpResponse) =>
        /\ resp.status = loop.last.code
        /\ resp.body = UpstreamBody

\* C5: detect_ollama_url is called once in the life of the process, and no
\* call or probe of it happens once the server is accepting connections.
C5_ResolvedOnce ==
    /\ resolveCount <= 1
    /\ phase = "serving" => detect.state = "idle"

\* C6: every request is forwarded to, and has its status queried at, the
\* URL selected at startup.
C6_EndpointNeverChanges ==
    /\ ollama_url # "" => ollama_url = startup_url
    /\ \A i \in 1..Len(attempts) : attempts[i].base = startup_url
    /\ resp.body.kind = "status" => resp.body.status.url = startup_url

\* C7: while a request is inside its retry loop or its backoff, the server
\* can accept a connection that is waiting.
C7_BackoffDoesNotBlockAccept ==
    (InLoop /\ backlog > 0) => ENABLED Accept

\* C8: with OLLAMA_URL set, detect_ollama_url returns that URL and issues no
\* probe.
C8_OverrideNoProbe ==
    override # NoOverride =>
        /\ detect.probes = <<>>
        /\ detect.state \in {"idle", "returned"}
        /\ detect.state = "returned" => detect.result = override
C8_Witness ==
    /\ override # NoOverride
    /\ detect.state = "returned"
    /\ detect.result = OverrideURL

\* C9: without OLLAMA_URL, the probes of a call are a prefix of the
\* candidate list in its order, only the last probe can have answered 200,
\* and the call returns the candidate it probed last: the first that
\* answered 200, or the last of the list when none did.
C9_ProbeOrderShortCircuit ==
    override = NoOverride =>
        LET n == Len(detect.probes)
        IN  /\ n <= Len(Candidates)
            /\ detect.probes = SubSeq(Candidates, 1, n)
            /\ Len(detect.answers) = n
            /\ \A i \in 1..(n - 1) : detect.answers[i] # "status_200"
            /\ detect.state = "probing" =>
                  \A i \in 1..n : detect.answers[i] # "status_200"
            /\ detect.state = "returned" =>
                  /\ n >= 1
                  /\ detect.result = Candidates[n]
                  /\ detect.answers[n] = "status_200" \/ n = Len(Candidates)
C9_Witness ==
    /\ override = NoOverride
    /\ detect.state = "returned"
    /\ detect.answers = <<"refused", "status_200">>
    /\ detect.probes = <<Candidates[1], Candidates[2]>>
    /\ detect.result = Candidates[2]

\* C10: without OLLAMA_URL, a call none of whose probes answered 200 ends
\* by returning the last candidate; no call ends in an exception.
C10_FallbackNeverFails ==
    (/\ override = NoOverride
     /\ detect.state \notin {"idle", "probing"}
     /\ \A i \in 1..Len(detect.answers) : detect.answers[i] # "status_200")
    => /\ detect.state = "returned"
       /\ detect.result = Candidates[Len(Candidates)]

Range(seq) == {seq[i] : i \in 1..Len(seq)}
CorsHeaders == <<"Access-Control-Allow-Origin",
                 "Access-Control-Allow-Methods",
                 "Access-Control-Allow-Headers">>
Responded == resp.status # 0
ForwardRoute ==
    /\ request.command \in {"GET", "POST"}
    /\ startswith_api(request.path)
    /\ request.path # "/api/status"
StatusRoute ==
    /\ request.command \in {"GET", "POST"}
    /\ request.path = "/api/status"

\* C11: every response written, on every path, carries the header
\* Access-Control-Allow-Origin.
C11_CorsOnEveryResponse ==
    Responded => "Access-Control-Allow-Origin" \in Range(resp.headers)
C11_Witness ==
    /\ resp.status = 503
    /\ resp.body.kind = "envelope"
    /\ "Access-Control-Allow-Origin" \in Range(resp.headers)

\* C12 as stated: in every response the CORS headers come before every
\* other header, so Access-Control-Allow-Origin is the first header written.
C12_CorsBeforeOtherHeaders ==
    Responded => resp.headers[1] = "Access-Control-Allow-Origin"

\* C12 as amended: in every response the three CORS headers are the last
\* headers written, in the order of end_headers, after Server, Date and
\* Content-Type; only the body follows them.
C12_CorsHeadersLast ==
    Responded =>
        LET n == Len(resp.headers)
        IN  /\ n >= 3
            /\ SubSeq(resp.headers, n - 2, n) = CorsHeaders
            /\ \A i \in 1..(n - 3) : resp.headers[i] \notin Range(CorsHeaders)
C12_Witness ==
    /\ resp.status = 500
    /\ resp.headers = <<"Server", "Date", "Content-Type">> \o CorsHeaders

\* C13: an OPTIONS request, whatever its path, is answered 200 with the CORS
\* headers and an empty body, and nothing is forwarded upstream for it.
C13_OptionsPreflight ==
    request.command = "OPTIONS" =>
        /\ hpc \in {"options", "done"}
        /\ attempts = <<>>
        /\ hpc = "done" =>
              /\ resp.status = 200
              /\ Range(CorsHeaders) \subseteq Range(resp.headers)
              /\ resp.body = [kind |-> "empty"]
C13_Witness ==
    /\ request.command = "OPTIONS"
    /\ request.path = "/api/chat"
    /\ hpc = "done"
    /\ resp.status = 200

C15_StatusNeverForwarded ==
    StatusRoute =>
        /\ hpc \in {"proxy", "done"}
        /\ attempts = <<>>
        /\ slept = <<>>
        /\ \A i \in 1..Len(calls) : calls[i].path # "/api/status"
        /\ hpc = "done" => calls = <<tags_call(ollama_url)>>

\* C16: a status query answered with an inventory of n models gives
\* connected = True, models_count = n and the first min(n, 5) names in the
\* backend's order; any failure gives connected = False, an error,
\* models_count = 0 and no models.
C16_StatusResult ==
    resp.body.kind = "status" =>
        LET r == resp.body.status
            inv == status_reply.models
        IN  /\ Len(r.models) <= 5
            /\ ~r.connected => r.models_count = 0
            /\ status_reply.kind = "ok" =>
                  /\ r.connected
                  /\ r.models_count = Len(inv)
                  /\ Len(r.models) = IF Len(inv) < 5 THEN Len(inv) ELSE 5
                  /\ \A i \in 1..Len(r.models) : r.models[i] = inv[i]
            /\ status_reply.kind # "ok" =>
                  /\ ~r.connected
                  /\ r.error # ""
                  /\ r.models_count = 0
                  /\ r.models = <<>>
C16_Witness ==
    /\ resp.body.kind = "status"
    /\ Len(status_reply.models) = 6
    /\ resp.body.status.models_count = 6
    /\ resp.body.status.models = <<"m6", "m5", "m4", "m3", "m2">>

\* C17: the envelope of an upstream HTTP error has the upstream code as
\* status; a 404 on a path ending in /chat has the model-not-found message;
\* 404, 500 and 503 have their own suggestion and every other code the
\* generic one.
C17_ErrorTranslation ==
    (hpc = "done" /\ loop.last.class = "http_error") =>
        LET code == loop.last.code
        IN  /\ resp.status = code
            /\ resp.body.kind = "envelope"
            /\ (code = 404 /\ request.path = "/api/chat") =>
                  resp.body.error.text =
                     "Model not found. Please ensure the selected model is available in Ollama."
            /\ code = 404 => resp.body.suggestion =
                  "Try selecting a different model or pull the model"
            /\ code = 500 => resp.body.suggestion =
                  "The model might be loading"
            /\ code = 503 => resp.body.suggestion =
                  "Ollama service might be starting up"
            /\ code \notin {404, 500, 503} => resp.body.suggestion =
                  "Please check the Ollama service status and try again"
C17_Witness ==
    /\ hpc = "done"
    /\ loop.last = [class |-> "http_error", code |-> 404, data |-> "e1"]
    /\ request.path = "/api/chat"
    /\ resp.status = 404
    /\ resp.body.suggestion = "Try selecting a different model or pull the model"

\* C18: an unexpected error in the forwarding loop, at any attempt, ends
\* the request with the generic 500 envelope that points to the logs; it is
\* the last outbound attempt of the request.
InternalError ==
    /\ hpc = "done"
    /\ resp.status = 500
    /\ resp.body.kind = "envelope"
    /\ resp.body.error.text = "Internal Server Error"
    /\ resp.body.suggestion = "Please check server logs for more details."
C18_UnexpectedError500 ==
    /\ \A i \in 1..Len(outcomes) :
          outcomes[i] = "exception" => (i = Len(outcomes) /\ InternalError)
    /\ (ForwardRoute /\ content_length_raises(request.content_length)) =>
          /\ hpc \in {"proxy", "loop", "done"}
          /\ attempts = <<>>
          /\ hpc = "done" => InternalError
C18_Witness ==
    /\ outcomes = <<"connfail", "exception">>
    /\ hpc = "done"
    /\ resp.status = 500

\* C19: every forwarded request that ends without an upstream success is
\* answered with an envelope of exactly error, message and a non-empty
\* suggestion; the status is 503 after connection failures, the upstream
\* code after an upstream error, 500 after an internal fault.
C19_FailureEnvelope ==
    (ForwardRoute /\ hpc = "done") =>
        /\ Responded
        /\ loop.last.class # "ok" =>
              /\ DOMAIN resp.body = {"kind", "error", "message", "suggestion"}
              /\ resp.body.kind = "envelope"
              /\ resp.body.suggestion # ""
              /\ loop.last.class = "connfail" => resp.status = 503
              /\ loop.last.class = "http_error" => resp.status = loop.last.code
              /\ loop.last.class \in {"exception", "none"} => resp.status = 500
C19_Witness ==
    /\ ForwardRoute
    /\ hpc = "done"
    /\ outcomes = <<"connfail", "connfail", "connfail">>
    /\ resp.status = 503
    /\ resp.body.suggestion # ""

\* C20: the inbound body is read once, before the first attempt, and every
\* outbound attempt of a request carries the same method, path and body.
C20_BodyReadOnce ==
    /\ reads <= 1
    /\ \A i, j \in 1..Len(attempts) : attempts[i] = attempts[j]

\* C21: every outbound forwarding request has the method of the inbound
\* request, whether or not a body came with it.
C21_MethodPreserved ==
    \A i \in 1..Len(attempts) : attempts[i].method = request.command

\* C22: between two consecutive outbound attempts of a request a delay is
\* slept, and the delays are 1s, then 2s.
C22_DelayBetweenAttempts ==
    /\ Len(slept) >= Len(attempts) - 1
    /\ \A i \in 1..Len(slept) :
          slept[i] = IF i = 1 THEN base_retry_delay ELSE 2 * base_retry_delay

\* C23: a forwarded request is answered after at most max_retries outbound
\* attempts and max_retries - 1 delays, whatever the upstream does and
\* whether or not the request has a body.
C23_ForwardTerminates ==
    /\ [](Len(attempts) <= max_retries /\ Len(slept) <= max_retries - 1)
    /\ (ForwardRoute /\ hpc \in {"proxy", "loop", "urlopen", "sleep"})
          ~> (hpc = "done" /\ Responded)

\* C24: the answer to a forwarded request is decided by the outcome of its
\* last outbound attempt alone.  An HTTP error on the first or second
\* attempt writes nothing and the loop goes on; nothing is written before
\* the loop ends.
C24_LastAttemptDecides ==
    ForwardRoute =>
        /\ hpc # "done" => resp = NoResp
        /\ \A i \in 1..Len(outcomes) :
              (outcomes[i] = "http_error" /\ i < max_retries
                 /\ i = Len(outcomes))
              => (hpc \in {"loop", "urlopen"} /\ resp = NoResp)
        /\ (hpc = "done" /\ outcomes # <<>>) =>
              /\ outcomes[Len(outcomes)] = loop.last.class
              /\ loop.last.class = "ok" =>
                    (resp.status = 200 /\ resp.body = UpstreamBody)
              /\ loop.last.class = "http_error" =>
                    (resp.status = loop.last.code
                       /\ resp.body.kind = "envelope"
                       /\ Len(outcomes) = max_retries)
              /\ loop.last.class = "connfail" =>
                    (resp.status = 503 /\ Len(outcomes) = max_retries)
              /\ loop.last.class = "exception" => resp.status = 500
C24_Witness ==
    /\ ForwardRoute
    /\ hpc = "done"
    /\ outcomes = <<"http_error", "ok">>
    /\ resp.status = 200
    /\ resp.body = UpstreamBody

\* C25: every GET, POST or OPTIONS request whose handling has ended has
\* been answered, whatever its path.
C25_EveryRequestAnswered ==
    (request.command \in Commands /\ hpc = "done") => Responded

====
